---------------------------- MODULE Spec2Model ----------------------------
(***************************************************************************)
(* A model of grizzly's execution core: Runner (common/runner.py) and the  *)
(* Session iteration loop (session.py).                                    *)
(*                                                                         *)
(* Runner.launch, Runner.run and Session.report_result are operators that  *)
(* compute, from the state they read and the answers of the external       *)
(* collaborators (target, server, test case, reporter), the state they     *)
(* leave behind.  Session.run is a loop; each of its code segments is an   *)
(* action, sequenced by pc.  Under RunnerSpec a caller other than Session  *)
(* (replay, reduce, a test) drives Runner.launch and Runner.run directly   *)
(* with arbitrary arguments.  IdleSpec drives an _IdleChecker against a    *)
(* clock, ServeSpec is Runner.run while the server calls _keep_waiting,    *)
(* LimiterSpec calls LogOutputLimiter.ready once per iteration, and        *)
(* LocationSpec calls Runner.location.                                     *)
(***************************************************************************)
EXTENDS Integers, Sequences, FiniteSets, TLC

VARIABLES
    pc,               \* Session.run: the code segment that runs next
    outcome,          \* Session.run: how it ended ("running" until then)
    iteration,        \* Session.status.iteration
    results,          \* Session.status.results (tally of count_result)
    ignored,          \* Session.status.ignored
    iteration_limit,  \* Session.run's iteration_limit argument
    coverage,         \* Session.coverage
    remaining,        \* adapter.remaining
    closed,           \* target.closed
    tests_run,        \* Runner._tests_run
    dirs,             \* the directories that exist on the filesystem
    result,           \* the RunResult returned by the latest Runner.run
    events,           \* collaborator calls of the current iteration / call, in order
    lastLaunch,       \* record of the Runner.launch call, when it is the latest call
    lastRun,          \* record of the Runner.run call, when it is the latest call
    lastReport,       \* record of the Session.report_result call of this iteration
    prev,             \* status tallies and target.closed when the current iteration
                      \* began, and whether the delivery before it was left unattempted
    dropIter,         \* iteration in which adapter.remaining first dropped below 1
    since,            \* Runner.run calls and attempted deliveries since Runner.launch last returned
    now,              \* the clock read by time()
    next_poll,        \* _IdleChecker._next_poll
    init_delay,       \* _IdleChecker._init_delay
    poll_delay,       \* _IdleChecker._poll_delay
    t0,               \* when schedule_poll(initial=True) last ran
    checks,           \* the latest two calls of the idle predicate since then
    lastIdle,         \* record of the latest _IdleChecker.is_idle call
    idle_set,         \* Runner._idle is not None
    serving,          \* Runner.run is inside server.serve_path
    scheduled,        \* schedule_poll(initial=True) has run in this Runner.run call
    lastKeep,         \* record of the latest Runner._keep_waiting call
    limiter,          \* the fields of a LogOutputLimiter
    lastReady,        \* record of the latest LogOutputLimiter.ready call
    lastLoc           \* record of the latest Runner.location call

vars == << pc, outcome, iteration, results, ignored, iteration_limit, coverage,
           remaining, closed, tests_run, dirs, result, events, lastLaunch,
           lastRun, lastReport, prev, dropIter, since, now, next_poll,
           init_delay, poll_delay, t0, checks, lastIdle, idle_set, serving,
           scheduled, lastKeep, limiter, lastReady, lastLoc >>

idleVars == << now, next_poll, init_delay, poll_delay, t0, checks, lastIdle >>

serveVars == << idle_set, serving, scheduled, lastKeep >>

limiterVars == << limiter, lastReady >>

\* what the actions of Session.run and of Runner's callers leave alone
auxVars == << idleVars, serveVars, limiterVars, lastLoc >>

sessionVars == << pc, outcome, iteration, results, ignored, iteration_limit,
                  coverage, remaining, lastReport, prev, dropIter >>

---------------------------------------------------------------------------
(* Bounds of the model *)

MaxLimit == 3        \* iteration_limit is None or in 0..MaxLimit
MaxRemaining == 3    \* adapter.remaining is None or in 0..MaxRemaining
MaxRetries == 3      \* max_retries given by a direct caller of Runner.launch
MaxTestsRun == 3     \* cap of Runner._tests_run under a direct caller
MaxDirs == 3         \* names mkdtemp can draw from

(* The loop of Session.run is unbounded when neither stop condition is set: *)
(* the model stops starting iterations after MaxIter of them.               *)
MaxIter == (IF MaxLimit > MaxRemaining THEN MaxLimit ELSE MaxRemaining) + 1

---------------------------------------------------------------------------
(* Values of the program *)

None == -1                          \* Python's None, for an optional integer
FAILED == "FAILED"                  \* RunResult.FAILED
IGNORED == "IGNORED"                \* RunResult.IGNORED
NoStatus == "None"                  \* RunResult.status default
RESULT_NONE == "RESULT_NONE"        \* target.RESULT_NONE
RESULT_FAILURE == "RESULT_FAILURE"  \* target.RESULT_FAILURE
RESULT_IGNORED == "RESULT_IGNORED"  \* target.RESULT_IGNORED
SessionMaxRetries == 3              \* runner.launch(location, max_retries=3, ...)

LaunchOutcome == {"ok", "TargetLaunchError", "TargetLaunchTimeout"}
DetectResult == {RESULT_NONE, RESULT_FAILURE, RESULT_IGNORED}

LANDING == "landing_page"           \* testcase.landing_page
Files == {LANDING, "include"}       \* paths the target can request

TestPathDir == 0                    \* a directory owned by the caller of Runner.run
DirIds == 1..MaxDirs                \* names mkdtemp can return

---------------------------------------------------------------------------
(* The filesystem *)

Min(S) == CHOOSE x \in S : \A y \in S : x <= y

\* tempfile.mkdtemp: a directory that did not exist before
Mkdtemp(ds) == Min(DirIds \ ds)

\* shutil.rmtree
Rmtree(ds, d) == ds \ {d}

---------------------------------------------------------------------------
(* Runner.launch *)

\* reversed(range(n))
ReversedRange(n) == [i \in 1..n |-> n - i]

\* The retry loop: rs is the sequence the for statement walks, i the position
\* in it, outcomes[i] what the i-th call of target.launch does.
RECURSIVE LaunchLoop(_, _, _)
LaunchLoop(rs, i, outcomes) ==
    IF i > Len(rs)
    THEN [attempts |-> i - 1, launched |-> FALSE, raised |-> "none"]
    ELSE IF outcomes[i] = "ok"
    THEN [attempts |-> i, launched |-> TRUE, raised |-> "none"]
    ELSE IF rs[i] # 0
    THEN LaunchLoop(rs, i + 1, outcomes)
    ELSE [attempts |-> i, launched |-> FALSE, raised |-> outcomes[i]]

\* Runner.launch(location, max_retries=max_retries) with tests_run = tr and
\* target.closed = cl
RunnerLaunch(max_retries, outcomes, tr, cl) ==
    LET r == LaunchLoop(ReversedRange(max_retries), 1, outcomes)
    IN  [attempts  |-> r.attempts,
         launched  |-> r.launched,
         raised    |-> r.raised,
         tests_run |-> IF r.raised = "none" THEN 0 ELSE tr,
         closed    |-> IF r.launched THEN FALSE ELSE cl]

\* What the successive target.launch calls of one Runner.launch can do
LaunchOutcomes(n) == [1..(n + 1) -> LaunchOutcome]

\* Index of the first target.launch call that would succeed (0: none)
FirstOk(outcomes, n) ==
    LET ok == {i \in 1..n : outcomes[i] = "ok"}
    IN  IF ok = {} THEN 0 ELSE Min(ok)

NoLaunch == [called |-> FALSE, max_retries |-> 0, firstOk |-> 0, attempts |-> 0,
             launched |-> FALSE, raised |-> "none", tests_run_before |-> 0]

LaunchRecord(max_retries, outcomes, tr, r) ==
    [called |-> TRUE, max_retries |-> max_retries,
     firstOk |-> FirstOk(outcomes, max_retries + 1),
     attempts |-> r.attempts, launched |-> r.launched, raised |-> r.raised,
     tests_run_before |-> tr]

---------------------------------------------------------------------------
(* Runner.run *)

\* What the collaborators do during one Runner.run call
RunEnv ==
    [exit : {"dump_raises", "serve_raises"}, served : {{}}, timeout : {FALSE},
     detect : {RESULT_NONE}, closes : {FALSE}]
    \cup
    [exit : {"return"}, served : SUBSET Files, timeout : BOOLEAN,
     detect : DetectResult, closes : BOOLEAN]

\* RunResult.__init__ and the fields Runner.run sets afterwards
RunResult(served, timeout, attempted, initial, status) ==
    [served |-> served, timeout |-> timeout, attempted |-> attempted,
     initial |-> initial, status |-> status]

NoResult == RunResult({}, FALSE, FALSE, FALSE, NoStatus)

\* (mutant) a status is kept only for an attempted delivery
StatusOfAttemptedOnly(failure_detected, attempted) ==
    IF ~attempted THEN NoStatus
    ELSE IF failure_detected = RESULT_FAILURE THEN FAILED
    ELSE IF failure_detected = RESULT_IGNORED THEN IGNORED
    ELSE NoStatus

\* The mapping of target.detect_failure's answer to RunResult.status
StatusOf(failure_detected, attempted) ==
    IF failure_detected = RESULT_FAILURE THEN FAILED
    ELSE IF failure_detected = RESULT_IGNORED THEN IGNORED
    ELSE NoStatus

\* (mutant) the failure is classified before the test case is served
RunEventsDetectFirst(attempted, cov, timeout) ==
    << "detect_failure", "serve_path" >>
    \o (IF attempted /\ cov /\ ~timeout THEN << "dump_coverage" >> ELSE << >>)
    \o (IF ~attempted THEN << "close" >> ELSE << >>)

\* (mutant) the coverage dump does not look at the timeout
RunEventsCoverageOnTimeout(attempted, cov, timeout) ==
    << "serve_path" >>
    \o (IF attempted /\ cov THEN << "dump_coverage" >> ELSE << >>)
    \o << "detect_failure" >>
    \o (IF ~attempted THEN << "close" >> ELSE << >>)

\* The collaborator calls of Runner.run from serving on, in the order made
RunEvents(attempted, cov, timeout) ==
    << "serve_path" >>
    \o (IF attempted /\ cov /\ ~timeout THEN << "dump_coverage" >> ELSE << >>)
    \o << "detect_failure" >>
    \o (IF ~attempted THEN << "close" >> ELSE << >>)

\* (mutant) the scratch directory is removed on normal return only
RunCleanupOnReturnOnly(ds, wwwdir, test_path, raised) ==
    IF test_path = None /\ ~raised THEN Rmtree(ds, wwwdir) ELSE ds

\* The directories left when the try statement of Runner.run is left:
\* the finally clause removes the scratch directory on every path.
RunCleanup(ds, wwwdir, test_path, raised) ==
    IF test_path = None THEN Rmtree(ds, wwwdir) ELSE ds

\* Runner.run(ignore, server_map, testcase, test_path, coverage=cov) with
\* tests_run = tr, target.closed = cl and the directories ds
\* (mutant) an unattempted delivery leaves the target as it is
ClosedAfterRunKeepsOpen(attempted, cl, closes) == cl \/ closes

\* target.closed when Runner.run returns: the target is closed when the
\* delivery was not attempted; closes tells whether it closed by itself
ClosedAfterRun(attempted, cl, closes) ==
    IF ~attempted THEN TRUE ELSE (cl \/ closes)

\* (mutant) every delivery that returns counts as attempted
AttemptedAlways(served) == TRUE

\* result.attempted = testcase.landing_page in result.served
Attempted(served) == LANDING \in served

RunnerRun(test_path, cov, env, tr, cl, ds) ==
    LET wwwdir    == IF test_path = None THEN Mkdtemp(ds) ELSE test_path
        created   == IF test_path = None THEN {wwwdir} ELSE {}
        ds1       == ds \cup created
        raised    == IF test_path = None /\ env.exit = "dump_raises"
                     THEN "testcase.dump"
                     ELSE IF env.exit = "serve_raises" THEN "serve_path"
                     ELSE "none"
        ds2       == RunCleanup(ds1, wwwdir, test_path, raised # "none")
        attempted == Attempted(env.served)
        initial   == tr = 0
        res       == RunResult(env.served, env.timeout, attempted, initial,
                               StatusOf(env.detect, attempted))
    IN  IF raised # "none"
        THEN [raised |-> raised, result |-> NoResult, tests_run |-> tr,
              closed |-> cl, dirs |-> ds2, wwwdir |-> wwwdir,
              created |-> created, removed |-> ds1 \ ds2,
              events |-> IF raised = "serve_path" THEN << "serve_path" >> ELSE << >>]
        ELSE [raised |-> "none", result |-> res,
              tests_run |-> IF attempted THEN tr + 1 ELSE tr,
              closed |-> ClosedAfterRun(attempted, cl, env.closes),
              dirs |-> ds2, wwwdir |-> wwwdir,
              created |-> created, removed |-> ds1 \ ds2,
              events |-> RunEvents(attempted, cov, env.timeout)]

NoRun == [called |-> FALSE, test_path |-> None, raised |-> "none",
          detect |-> RESULT_NONE, wwwdir |-> 0, created |-> {}, removed |-> {},
          dirs_before |-> {}, iter |-> 0, coverage |-> FALSE]

RunRecord(test_path, cov, env, r, ds, it) ==
    [called |-> TRUE, test_path |-> test_path, coverage |-> cov,
     raised |-> r.raised,
     detect |-> env.detect, wwwdir |-> r.wwwdir, created |-> r.created,
     removed |-> r.removed, dirs_before |-> ds, iter |-> it]

---------------------------------------------------------------------------
(* Calls since the target was last launched (history) *)

\* Runner.__init__, and a Runner.launch in which target.launch succeeded
SinceStart == [attempted |-> 0, runs |-> 0]

\* a Runner.launch call: launched tells whether target.launch succeeded
SinceLaunch(s, launched) == IF launched THEN SinceStart ELSE s

\* one more Runner.run call; r is what RunnerRun computed for it.  runs
\* saturates at 2: only "none", "one" and "more" are told apart.
SinceRun(s, r) ==
    [attempted |-> IF r.raised = "none" /\ r.result.attempted
                   THEN s.attempted + 1 ELSE s.attempted,
     runs      |-> IF s.runs < 2 THEN s.runs + 1 ELSE 2]

---------------------------------------------------------------------------
(* _IdleChecker *)

\* the clock stops at MaxTime; delays range over 0..MaxDelay
MaxTime == 5
MaxDelay == 2

\* __init__ asserts initial_delay >= 0 and poll_delay >= 0
Delays == 0..MaxDelay

\* schedule_poll(initial, now): the new value of _next_poll
SchedulePoll(initial, t, idelay, pdelay) ==
    IF initial THEN t + idelay ELSE t + pdelay

\* (mutant) is_idle polls only after the scheduled instant has passed
IsIdleAfterOnly(np, t, answer, idelay, pdelay) ==
    IF np = None
    THEN [ret |-> FALSE, invoked |-> 0, next_poll |-> np, raised |-> "AssertionError"]
    ELSE IF t > np
    THEN IF answer
         THEN [ret |-> TRUE, invoked |-> 1, next_poll |-> np, raised |-> "none"]
         ELSE [ret |-> FALSE, invoked |-> 1,
               next_poll |-> SchedulePoll(FALSE, t, idelay, pdelay),
               raised |-> "none"]
    ELSE [ret |-> FALSE, invoked |-> 0, next_poll |-> np, raised |-> "none"]

\* (mutant) is_idle schedules the next poll from the instant that was due
IsIdleFromDue(np, t, answer, idelay, pdelay) ==
    IF np = None
    THEN [ret |-> FALSE, invoked |-> 0, next_poll |-> np, raised |-> "AssertionError"]
    ELSE IF t >= np
    THEN IF answer
         THEN [ret |-> TRUE, invoked |-> 1, next_poll |-> np, raised |-> "none"]
         ELSE [ret |-> FALSE, invoked |-> 1,
               next_poll |-> SchedulePoll(FALSE, np, idelay, pdelay),
               raised |-> "none"]
    ELSE [ret |-> FALSE, invoked |-> 0, next_poll |-> np, raised |-> "none"]

\* is_idle(): np is _next_poll, t what time() returns, answer what check_cb
\* answers if it is called.  invoked counts the calls of check_cb.
IsIdle(np, t, answer, idelay, pdelay) ==
    IF np = None
    THEN [ret |-> FALSE, invoked |-> 0, next_poll |-> np, raised |-> "AssertionError"]
    ELSE IF t >= np
    THEN IF answer
         THEN [ret |-> TRUE, invoked |-> 1, next_poll |-> np, raised |-> "none"]
         ELSE [ret |-> FALSE, invoked |-> 1,
               next_poll |-> SchedulePoll(FALSE, t, idelay, pdelay),
               raised |-> "none"]
    ELSE [ret |-> FALSE, invoked |-> 0, next_poll |-> np, raised |-> "none"]

NoIdle == [called |-> FALSE, at |-> 0, answer |-> FALSE, ret |-> FALSE,
           invoked |-> 0, before |-> None, raised |-> "none"]

\* an is_idle call at t that found _next_poll = np; r is what IsIdle computed
IdleRecord(t, answer, np, r) ==
    [called |-> TRUE, at |-> t, answer |-> answer, ret |-> r.ret,
     invoked |-> r.invoked, before |-> np, raised |-> r.raised]

\* the latest two calls of check_cb, oldest first
PushCheck(cs, c) == IF Len(cs) < 2 THEN Append(cs, c) ELSE << cs[2], c >>

IdleRest ==
    /\ now = 0
    /\ next_poll = None
    /\ init_delay = 0
    /\ poll_delay = 0
    /\ t0 = None
    /\ checks = << >>
    /\ lastIdle = NoIdle

---------------------------------------------------------------------------
(* Runner._keep_waiting *)

\* (mutant) the health of the target is consulted before the idle check
KeepWaitingHealthFirst(configured, idle, healthy) ==
    [ret |-> healthy /\ ~(configured /\ idle),
     idle_calls |-> IF configured /\ healthy THEN 1 ELSE 0,
     health_calls |-> 1]

\* _keep_waiting(): configured is "self._idle is not None", idle what
\* is_idle() returns when it is called, healthy what monitor.is_healthy()
\* answers when it is called
KeepWaiting(configured, idle, healthy) ==
    IF configured /\ idle
    THEN [ret |-> FALSE, idle_calls |-> 1, health_calls |-> 0]
    ELSE [ret |-> healthy, idle_calls |-> IF configured THEN 1 ELSE 0,
          health_calls |-> 1]

NoKeep == [called |-> FALSE, ret |-> FALSE, idle_calls |-> 0, idle |-> FALSE,
           health_calls |-> 0, healthy |-> FALSE, scheduled |-> FALSE,
           raised |-> "none"]

\* a _keep_waiting call: i is what IsIdle computed, k what KeepWaiting
\* computed, sch whether schedule_poll(initial=True) ran in this Runner.run
KeepRecord(i, healthy, k, sch) ==
    IF i.raised # "none"
    THEN [called |-> TRUE, ret |-> FALSE, idle_calls |-> 1, idle |-> FALSE,
          health_calls |-> 0, healthy |-> healthy, scheduled |-> sch,
          raised |-> i.raised]
    ELSE [called |-> TRUE, ret |-> k.ret, idle_calls |-> k.idle_calls,
          idle |-> i.ret, health_calls |-> k.health_calls,
          healthy |-> healthy, scheduled |-> sch, raised |-> "none"]

ServeRest ==
    /\ idle_set = FALSE
    /\ serving = FALSE
    /\ scheduled = FALSE
    /\ lastKeep = NoKeep

---------------------------------------------------------------------------
(* LogOutputLimiter *)

\* ready() is called for iterations 1..MaxCurIter, with up to MaxLaunches
\* launches of the target
MaxCurIter == 8
MaxLaunches == 2

\* __init__(delay, delta_multiplier, verbose) at clock t
LimiterNew(delay, multiplier, verbose, t) ==
    [delay |-> delay, iterations |-> 1, launches |-> 1,
     multiplier |-> multiplier, time |-> t, verbose |-> verbose]

\* (mutant) the iteration threshold grows by one instead of by the multiplier
ReadyEveryIteration(l, cur_iter, launches, t) ==
    IF l.verbose
    THEN [ret |-> TRUE, limiter |-> l]
    ELSE LET byIter == cur_iter >= l.iterations
             byLaunch == ~byIter /\ launches >= l.launches
             byTime == ~byIter /\ ~byLaunch /\ t - l.delay >= l.time
             ready == byIter \/ byLaunch \/ byTime
             l1 == IF byIter
                   THEN [l EXCEPT !.iterations = l.iterations + 1]
                   ELSE l
         IN  [ret |-> ready,
              limiter |-> IF ready
                          THEN [l1 EXCEPT !.time = t, !.launches = launches + 1]
                          ELSE l1]

\* ready(cur_iter, launches) at clock t: what it returns and the fields after
Ready(l, cur_iter, launches, t) ==
    IF l.verbose
    THEN [ret |-> TRUE, limiter |-> l]
    ELSE LET byIter == cur_iter >= l.iterations
             byLaunch == ~byIter /\ launches >= l.launches
             byTime == ~byIter /\ ~byLaunch /\ t - l.delay >= l.time
             ready == byIter \/ byLaunch \/ byTime
             l1 == IF byIter
                   THEN [l EXCEPT !.iterations = l.iterations * l.multiplier]
                   ELSE l
         IN  [ret |-> ready,
              limiter |-> IF ready
                          THEN [l1 EXCEPT !.time = t, !.launches = launches + 1]
                          ELSE l1]

\* no ready() call yet; the target has been launched n times
NoReady(n) == [called |-> FALSE, cur_iter |-> 0, launches |-> n, at |-> 0,
               ret |-> FALSE, before |-> LimiterNew(1, 2, FALSE, 0),
               quiet |-> TRUE]

\* a ready(cur_iter, launches) call at t that found the fields l; r is what
\* Ready computed, p the record of the call before.  quiet: so far the
\* launch count never changed and every call came less than delay after the
\* time anchor
ReadyRecord(l, cur_iter, launches, t, r, p) ==
    [called |-> TRUE, cur_iter |-> cur_iter, launches |-> launches, at |-> t,
     ret |-> r.ret, before |-> l,
     quiet |-> p.quiet /\ launches = p.launches /\ t - l.time < l.delay]

LimiterRest ==
    /\ limiter = LimiterNew(1, 2, FALSE, 0)
    /\ lastReady = NoReady(0)

---------------------------------------------------------------------------
(* Runner.location *)

\* A string is the sequence of its pieces: each literal of a format string is
\* one piece, and text that varies (the path, the digits of a number) is one
\* piece per character.

Digits == << "0", "1", "2", "3", "4", "5", "6", "7", "8", "9" >>

\* "%d" % n, for n >= 0
RECURSIVE Decimal(_)
Decimal(n) ==
    IF n < 10 THEN << Digits[n + 1] >>
    ELSE Decimal(n \div 10) \o << Digits[(n % 10) + 1] >>

\* str.lstrip(c)
RECURSIVE Lstrip(_, _)
Lstrip(str, c) ==
    IF str # << >> /\ Head(str) = c THEN Lstrip(Tail(str), c) ELSE str

\* sep.join(parts)
RECURSIVE Join(_, _)
Join(sep, parts) ==
    IF parts = << >> THEN << >>
    ELSE IF Len(parts) = 1 THEN parts[1]
    ELSE parts[1] \o sep \o Join(sep, Tail(parts))

\* (mutant) the forced_close directive is added when forced_close is set
LocationForcedCloseSet(srv_path, srv_port, close_after, forced_close, timeout) ==
    LET location == << "http://127.0.0.1:" >> \o Decimal(srv_port) \o << "/" >>
                    \o Lstrip(srv_path, "/")
        a1 == IF close_after # None
              THEN << << "close_after=" >> \o Decimal(close_after) >> ELSE << >>
        a2 == IF forced_close THEN << << "forced_close=0" >> >> ELSE << >>
        a3 == IF timeout # None
              THEN << << "timeout=" >> \o Decimal(timeout * 1000) >> ELSE << >>
        args == a1 \o a2 \o a3
    IN  IF args # << >>
        THEN Join(<< "?" >>, << location, Join(<< "&" >>, args) >>)
        ELSE location

\* Runner.location(srv_path, srv_port, close_after, forced_close, timeout)
Location(srv_path, srv_port, close_after, forced_close, timeout) ==
    LET location == << "http://127.0.0.1:" >> \o Decimal(srv_port) \o << "/" >>
                    \o Lstrip(srv_path, "/")
        a1 == IF close_after # None
              THEN << << "close_after=" >> \o Decimal(close_after) >> ELSE << >>
        a2 == IF ~forced_close THEN << << "forced_close=0" >> >> ELSE << >>
        a3 == IF timeout # None
              THEN << << "timeout=" >> \o Decimal(timeout * 1000) >> ELSE << >>
        args == a1 \o a2 \o a3
    IN  IF args # << >>
        THEN Join(<< "?" >>, << location, Join(<< "&" >>, args) >>)
        ELSE location

\* the arguments a caller passes
Paths == { << >>, << "x" >>, << "/", "x" >>, << "/", "/", "x", "/", "y" >> }
Ports == { 0, 80, 8080 }
CloseAfters == { None, 0, 5 }
Timeouts == { None, 0, 2, 60 }

NoLoc == [called |-> FALSE, srv_path |-> << >>, srv_port |-> 0,
          close_after |-> None, forced_close |-> TRUE, timeout |-> None,
          url |-> << >>]

LocRest == lastLoc = NoLoc

---------------------------------------------------------------------------
\* no idle checker, limiter or location call in motion
AuxRest == IdleRest /\ ServeRest /\ LimiterRest /\ LocRest

---------------------------------------------------------------------------
(* Session.report_result *)

\* What the collaborators do during one report_result call: which call raises
\* (if any), and whether reporter.submit moved the log directory away.
ReportEnv ==
    [raises : {"target.save_logs", "Report", "reporter.submit"}, moved : {FALSE}]
    \cup
    [raises : {"none"}, moved : BOOLEAN]

\* Session.report_result() with the directories ds
ReportResult(env, ds) ==
    LET result_logs == Mkdtemp(ds)
        ds1 == ds \cup {result_logs}
        ds2 == IF env.moved THEN ds1 \ {result_logs} ELSE ds1
        ds3 == IF result_logs \in ds2 THEN Rmtree(ds2, result_logs) ELSE ds2
    IN  IF env.raises # "none"
        THEN [raised |-> env.raises, dirs |-> ds1, result_logs |-> result_logs,
              counted |-> 0]
        ELSE [raised |-> "none", dirs |-> ds3, result_logs |-> result_logs,
              counted |-> 1]

NoReport == [called |-> FALSE, result_logs |-> 0, raised |-> "none"]

---------------------------------------------------------------------------
(* Session.run *)

\* (mutant) the target is launched at the head of every iteration
LaunchNeededAlways(cl) == TRUE

\* "if self.target.closed" at the head of the loop
LaunchNeeded(cl) == cl

\* The head of the loop: status.report(), the iteration counter, and the
\* (re)launch of a closed target.
IterBegin ==
    /\ pc = "top"
    /\ iteration < MaxIter
    /\ iteration' = iteration + 1
    /\ prev' = [results |-> results, ignored |-> ignored, closed |-> closed,
                retry |-> /\ lastRun.called /\ lastRun.raised = "none"
                          /\ ~result.attempted /\ ~result.initial]
    /\ result' = NoResult
    /\ lastRun' = NoRun
    /\ lastReport' = NoReport
    /\ IF LaunchNeeded(closed)
       THEN \E outcomes \in LaunchOutcomes(SessionMaxRetries) :
              LET r == RunnerLaunch(SessionMaxRetries, outcomes, tests_run, closed)
              IN  /\ events' = << "purge_tests", "pre_launch", "launch" >>
                  /\ tests_run' = r.tests_run
                  /\ closed' = r.closed
                  /\ lastLaunch' = LaunchRecord(SessionMaxRetries, outcomes,
                                                tests_run, r)
                  /\ pc' = IF r.raised = "none" THEN "generate" ELSE "error"
                  /\ outcome' = IF r.raised = "none" THEN outcome ELSE r.raised
                  /\ since' = SinceLaunch(since, r.launched)
       ELSE /\ events' = << >>
            /\ lastLaunch' = NoLaunch
            /\ pc' = "generate"
            /\ UNCHANGED << tests_run, closed, outcome, since >>
    /\ UNCHANGED << results, ignored, iteration_limit, coverage, remaining,
                    dirs, dropIter, auxVars >>

\* no iteration has begun
NoPrev == [results |-> 0, ignored |-> 0, closed |-> TRUE, retry |-> FALSE]

\* adapter.generate consumes one input of a bounded (replay) adapter
AdapterGenerate(rem) == IF rem = None THEN None ELSE IF rem > 0 THEN rem - 1 ELSE 0

\* generate_testcase() and display_status()
Generate ==
    /\ pc = "generate"
    /\ remaining' = AdapterGenerate(remaining)
    /\ dropIter' = IF dropIter = 0 /\ remaining # None /\ remaining >= 1
                      /\ AdapterGenerate(remaining) < 1
                   THEN iteration ELSE dropIter
    /\ events' = Append(events, "generate")
    /\ pc' = "run"
    /\ UNCHANGED << outcome, iteration, results, ignored, iteration_limit,
                    coverage, closed, tests_run, dirs, result, lastLaunch,
                    lastRun, lastReport, prev, since, auxVars >>

\* runner.run(...) and the adapter callbacks
RunTestcase ==
    /\ pc = "run"
    /\ \E env \in RunEnv :
         LET r == RunnerRun(None, coverage, env, tests_run, closed, dirs)
         IN  /\ tests_run' = r.tests_run
             /\ closed' = r.closed
             /\ dirs' = r.dirs
             /\ result' = r.result
             /\ lastRun' = RunRecord(None, coverage, env, r, dirs, iteration)
             /\ events' = events \o r.events
             /\ pc' = IF r.raised = "none" THEN "update" ELSE "error"
             /\ outcome' = IF r.raised = "none" THEN outcome ELSE r.raised
             /\ since' = SinceRun(since, r)
    /\ UNCHANGED << iteration, results, ignored, iteration_limit, coverage,
                    remaining, lastLaunch, lastReport, prev, dropIter, auxVars >>

\* (mutant) the fatal case is taken for a later attempt, not for the first
NotServedFatalInverted(res) == ~res.attempted /\ ~res.initial

\* The delivery was not attempted and it was the first since the launch
NotServedFatal(res) == ~res.attempted /\ res.initial

\* "update test case": the bookkeeping of the delivery
UpdateTestcase ==
    /\ pc = "update"
    /\ IF NotServedFatal(result)
       THEN \E save_logs \in {"none", "target.save_logs"} :
              LET err_logs == Mkdtemp(dirs)
              IN  /\ dirs' = dirs \cup {err_logs}
                  /\ events' = Append(events, "save_logs")
                  /\ pc' = "error"
                  /\ outcome' = IF save_logs = "none" THEN "SessionError"
                                ELSE save_logs
       ELSE /\ events' = IF result.attempted /\ result.served = {}
                         THEN Append(events, "tests.pop")
                         ELSE events
            /\ pc' = "results"
            /\ UNCHANGED << dirs, outcome >>
    /\ UNCHANGED << iteration, results, ignored, iteration_limit, coverage,
                    remaining, closed, tests_run, result, lastLaunch, lastRun,
                    lastReport, prev, dropIter, since, auxVars >>

\* (mutant) a failure is reported only when the delivery was attempted
ReportNeededAttemptedOnly(res) == res.status = FAILED /\ res.attempted

\* result.status == RunResult.FAILED
ReportNeeded(res) == res.status = FAILED

\* "process results": the dispatch on result.status
ProcessResults ==
    /\ pc = "results"
    /\ IF ReportNeeded(result)
       THEN \E env \in ReportEnv :
              LET r == ReportResult(env, dirs)
              IN  /\ dirs' = r.dirs
                  /\ results' = results + r.counted
                  /\ lastReport' = [called |-> TRUE, result_logs |-> r.result_logs,
                                    raised |-> r.raised]
                  /\ events' = Append(events, "report_result")
                  /\ pc' = IF r.raised = "none" THEN "relaunch" ELSE "error"
                  /\ outcome' = IF r.raised = "none" THEN outcome ELSE r.raised
                  /\ UNCHANGED ignored
       ELSE /\ ignored' = IF result.status = IGNORED THEN ignored + 1 ELSE ignored
            /\ pc' = "relaunch"
            /\ UNCHANGED << dirs, results, lastReport, events, outcome >>
    /\ UNCHANGED << iteration, iteration_limit, coverage, remaining, closed,
                    tests_run, result, lastLaunch, lastRun, prev, dropIter,
                    since, auxVars >>

\* target.check_relaunch(): the target may close itself
CheckRelaunch ==
    /\ pc = "relaunch"
    /\ \E closes \in BOOLEAN : closed' = (closed \/ closes)
    /\ events' = Append(events, "check_relaunch")
    /\ pc' = "stop"
    /\ UNCHANGED << outcome, iteration, results, ignored, iteration_limit,
                    coverage, remaining, tests_run, dirs, result, lastLaunch,
                    lastRun, lastReport, prev, dropIter, since, auxVars >>

\* (mutant) the replay is complete only below zero
ReplayCompleteBelowZero(rem) == rem # None /\ rem < 0

\* self.adapter.remaining is not None and self.adapter.remaining < 1
ReplayComplete(rem) == rem # None /\ rem < 1

\* (mutant) the limit is hit only once the counter has passed it
HitIterationLimitLate(it, limit) == limit # None /\ it > limit

\* iteration_limit is not None and self.status.iteration == iteration_limit
HitIterationLimit(it, limit) == limit # None /\ it = limit

\* The stop conditions at the end of the loop body
StopCheck ==
    /\ pc = "stop"
    /\ IF ReplayComplete(remaining)
       THEN pc' = "done" /\ outcome' = "Replay Complete"
       ELSE IF HitIterationLimit(iteration, iteration_limit)
       THEN pc' = "done" /\ outcome' = "Hit iteration limit"
       ELSE pc' = "top" /\ outcome' = outcome
    /\ UNCHANGED << iteration, results, ignored, iteration_limit, coverage,
                    remaining, closed, tests_run, dirs, result, events,
                    lastLaunch, lastRun, lastReport, prev, dropIter, since,
                    auxVars >>

Init ==
    /\ pc = "top"
    /\ outcome = "running"
    /\ iteration = 0
    /\ results = 0
    /\ ignored = 0
    /\ iteration_limit \in {None} \cup (0..MaxLimit)
    /\ coverage \in BOOLEAN
    /\ remaining \in {None} \cup (0..MaxRemaining)
    /\ closed = TRUE
    /\ tests_run = 0
    /\ dirs = {}
    /\ result = NoResult
    /\ events = << >>
    /\ lastLaunch = NoLaunch
    /\ lastRun = NoRun
    /\ lastReport = NoReport
    /\ prev = NoPrev
    /\ dropIter = 0
    /\ since = SinceStart
    /\ AuxRest

Next ==
    \/ IterBegin
    \/ Generate
    \/ RunTestcase
    \/ UpdateTestcase
    \/ ProcessResults
    \/ CheckRelaunch
    \/ StopCheck

Spec == Init /\ [][Next]_vars

---------------------------------------------------------------------------
(* A direct caller of Runner *)

DriverLaunch ==
    \E max_retries \in 0..MaxRetries :
    \E outcomes \in LaunchOutcomes(MaxRetries) :
        LET r == RunnerLaunch(max_retries, outcomes, tests_run, closed)
        IN  /\ tests_run' = r.tests_run
            /\ closed' = r.closed
            /\ lastLaunch' = LaunchRecord(max_retries, outcomes, tests_run, r)
            /\ events' = << "launch" >>
            /\ result' = NoResult
            /\ lastRun' = NoRun
            /\ since' = SinceLaunch(since, r.launched)
            /\ UNCHANGED << sessionVars, dirs, auxVars >>

DriverRun ==
    /\ tests_run < MaxTestsRun
    /\ since.attempted < MaxTestsRun
    /\ \E test_path \in {None, TestPathDir} :
       \E cov \in BOOLEAN :
       \E env \in RunEnv :
            \* testcase.dump is called only when test_path is None
            /\ test_path # None => env.exit # "dump_raises"
            /\ LET r == RunnerRun(test_path, cov, env, tests_run, closed, dirs)
               IN
                /\ tests_run' = r.tests_run
                /\ closed' = r.closed
                /\ dirs' = r.dirs
                /\ result' = r.result
                /\ lastRun' = RunRecord(test_path, cov, env, r, dirs, 0)
                /\ events' = r.events
                /\ lastLaunch' = NoLaunch
                /\ since' = SinceRun(since, r)
                /\ UNCHANGED << sessionVars, auxVars >>

\* a Runner just constructed, and nothing else in motion
CoreRest ==
    /\ pc = "top"
    /\ outcome = "running"
    /\ iteration = 0
    /\ results = 0
    /\ ignored = 0
    /\ iteration_limit = None
    /\ coverage = FALSE
    /\ remaining = None
    /\ closed = TRUE
    /\ tests_run = 0
    /\ dirs = {TestPathDir}
    /\ result = NoResult
    /\ events = << >>
    /\ lastLaunch = NoLaunch
    /\ lastRun = NoRun
    /\ lastReport = NoReport
    /\ prev = NoPrev
    /\ dropIter = 0
    /\ since = SinceStart

RunnerInit == CoreRest /\ AuxRest

RunnerNext == DriverLaunch \/ DriverRun

RunnerSpec == RunnerInit /\ [][RunnerNext]_vars

---------------------------------------------------------------------------
(* A direct caller of _IdleChecker *)

\* time passes
Tick ==
    /\ now < MaxTime
    /\ now' = now + 1
    /\ UNCHANGED << sessionVars, closed, tests_run, dirs, result, events,
                    lastLaunch, lastRun, since, next_poll, init_delay,
                    poll_delay, t0, checks, lastIdle, serveVars, limiterVars,
                    lastLoc >>

\* schedule_poll(initial=True)
CallSchedulePoll ==
    /\ next_poll' = SchedulePoll(TRUE, now, init_delay, poll_delay)
    /\ t0' = now
    /\ checks' = << >>
    /\ lastIdle' = NoIdle
    /\ UNCHANGED << sessionVars, closed, tests_run, dirs, result, events,
                    lastLaunch, lastRun, since, now, init_delay, poll_delay,
                    serveVars, limiterVars, lastLoc >>

\* is_idle(), once schedule_poll has been called
CallIsIdle ==
    /\ next_poll # None
    /\ \E answer \in BOOLEAN :
         LET r == IsIdle(next_poll, now, answer, init_delay, poll_delay)
         IN  /\ next_poll' = r.next_poll
             /\ lastIdle' = IdleRecord(now, answer, next_poll, r)
             /\ checks' = IF r.invoked = 1
                          THEN PushCheck(checks, [at |-> now, answer |-> answer])
                          ELSE checks
    /\ UNCHANGED << sessionVars, closed, tests_run, dirs, result, events,
                    lastLaunch, lastRun, since, now, init_delay, poll_delay,
                    t0, serveVars, limiterVars, lastLoc >>

\* _IdleChecker(check_cb, threshold, initial_delay, poll_delay)
IdleInit ==
    /\ CoreRest
    /\ now = 0
    /\ next_poll = None
    /\ init_delay \in Delays
    /\ poll_delay \in Delays
    /\ t0 = None
    /\ checks = << >>
    /\ lastIdle = NoIdle
    /\ ServeRest /\ LimiterRest /\ LocRest

IdleNext == Tick \/ CallSchedulePoll \/ CallIsIdle

IdleSpec == IdleInit /\ [][IdleNext]_vars

---------------------------------------------------------------------------
(* Runner.run while the server serves: the liveness callback *)

\* Runner.run up to the call of server.serve_path
ServeStart ==
    /\ ~serving
    /\ serving' = TRUE
    /\ scheduled' = idle_set
    /\ lastKeep' = NoKeep
    /\ lastIdle' = NoIdle
    /\ IF idle_set
       THEN /\ next_poll' = SchedulePoll(TRUE, now, init_delay, poll_delay)
            /\ t0' = now
            /\ checks' = << >>
       ELSE UNCHANGED << next_poll, t0, checks >>
    /\ UNCHANGED << sessionVars, closed, tests_run, dirs, result, events,
                    lastLaunch, lastRun, since, now, init_delay, poll_delay,
                    idle_set, limiterVars, lastLoc >>

\* the server calls continue_cb, which is Runner._keep_waiting.  The server
\* is free to call it again whatever it answered.
ServeCallback ==
    /\ serving
    /\ \E answer \in BOOLEAN :
       \E healthy \in BOOLEAN :
         LET i == IF idle_set
                  THEN IsIdle(next_poll, now, answer, init_delay, poll_delay)
                  ELSE [ret |-> FALSE, invoked |-> 0, next_poll |-> next_poll,
                        raised |-> "none"]
             k == KeepWaiting(idle_set, i.ret, healthy)
         IN  /\ next_poll' = i.next_poll
             /\ lastIdle' = IF idle_set
                            THEN IdleRecord(now, answer, next_poll, i)
                            ELSE NoIdle
             /\ checks' = IF i.invoked = 1
                          THEN PushCheck(checks, [at |-> now, answer |-> answer])
                          ELSE checks
             /\ lastKeep' = KeepRecord(i, healthy, k, scheduled)
             \* an assertion that fails ends the serving
             /\ serving' = (i.raised = "none")
             /\ scheduled' = (scheduled /\ i.raised = "none")
    /\ UNCHANGED << sessionVars, closed, tests_run, dirs, result, events,
                    lastLaunch, lastRun, since, now, init_delay, poll_delay,
                    t0, idle_set, limiterVars, lastLoc >>

\* server.serve_path returns
ServeReturn ==
    /\ serving
    /\ serving' = FALSE
    /\ scheduled' = FALSE
    /\ UNCHANGED << sessionVars, closed, tests_run, dirs, result, events,
                    lastLaunch, lastRun, since, idleVars, idle_set, lastKeep,
                    limiterVars, lastLoc >>

\* Runner(server, target, idle_threshold, idle_delay): an idle checker is
\* built when idle_threshold > 0, with idle_delay > 0 and poll_delay = 1
ServeInit ==
    /\ CoreRest
    /\ now = 0
    /\ next_poll = None
    /\ idle_set \in BOOLEAN
    /\ init_delay \in (IF idle_set THEN 1..MaxDelay ELSE {0})
    /\ poll_delay = (IF idle_set THEN 1 ELSE 0)
    /\ t0 = None
    /\ checks = << >>
    /\ lastIdle = NoIdle
    /\ serving = FALSE
    /\ scheduled = FALSE
    /\ lastKeep = NoKeep
    /\ LimiterRest /\ LocRest

ServeNext == Tick \/ ServeStart \/ ServeCallback \/ ServeReturn

ServeSpec == ServeInit /\ [][ServeNext]_vars

---------------------------------------------------------------------------
(* A caller of LogOutputLimiter.ready, once per iteration *)

\* ready(cur_iter, launches) for the next iteration; the target may have
\* been launched once more since the call before
CallReady ==
    /\ lastReady.cur_iter < MaxCurIter
    /\ \E launches \in { lastReady.launches, lastReady.launches + 1 } :
         /\ launches <= MaxLaunches
         /\ LET r == Ready(limiter, lastReady.cur_iter + 1, launches, now)
            IN  /\ limiter' = r.limiter
                /\ lastReady' = ReadyRecord(limiter, lastReady.cur_iter + 1,
                                            launches, now, r, lastReady)
    /\ UNCHANGED << sessionVars, closed, tests_run, dirs, result, events,
                    lastLaunch, lastRun, since, idleVars, serveVars, lastLoc >>

\* LogOutputLimiter(delay, delta_multiplier, verbose)
LimiterInit ==
    /\ CoreRest
    /\ IdleRest /\ ServeRest /\ LocRest
    /\ \E delay \in 1..MaxDelay :
       \E multiplier \in {2, 3} :
       \E verbose \in BOOLEAN :
         limiter = LimiterNew(delay, multiplier, verbose, 0)
    /\ \E n \in 0..MaxLaunches : lastReady = NoReady(n)

LimiterNext == Tick \/ CallReady

LimiterSpec == LimiterInit /\ [][LimiterNext]_vars

---------------------------------------------------------------------------
(* A caller of Runner.location *)

CallLocation ==
    /\ \E srv_path \in Paths :
       \E srv_port \in Ports :
       \E close_after \in CloseAfters :
       \E forced_close \in BOOLEAN :
       \E timeout \in Timeouts :
         lastLoc' = [called |-> TRUE, srv_path |-> srv_path,
                     srv_port |-> srv_port, close_after |-> close_after,
                     forced_close |-> forced_close, timeout |-> timeout,
                     url |-> Location(srv_path, srv_port, close_after,
                                      forced_close, timeout)]
    /\ UNCHANGED << sessionVars, closed, tests_run, dirs, result, events,
                    lastLaunch, lastRun, since, idleVars, serveVars,
                    limiterVars >>

LocationInit == CoreRest /\ IdleRest /\ ServeRest /\ LimiterRest /\ LocRest

LocationNext == CallLocation

LocationSpec == LocationInit /\ [][LocationNext]_vars

---------------------------------------------------------------------------
(* Properties *)

\* How many times the collaborator call e was made in the current iteration
Count(e) == Cardinality({i \in 1..Len(events) : events[i] = e})

\* Runner.run returned a RunResult (it did not raise)
RunReturned == lastRun.called /\ lastRun.raised = "none"

\* C1: Runner.launch calls target.launch up to max_retries+1 times: when every
\* attempt raises, exactly max_retries+1 attempts are made before the error
\* propagates, and a success on attempt k <= max_retries+1 stops the loop
\* after exactly k attempts.
C1_LaunchAttempts ==
    lastLaunch.called =>
        IF lastLaunch.firstOk = 0
        THEN /\ lastLaunch.attempts = lastLaunch.max_retries + 1
             /\ lastLaunch.raised # "none"
        ELSE /\ lastLaunch.attempts = lastLaunch.firstOk
             /\ lastLaunch.raised = "none"

\* C2: Runner.launch returns normally only if some target.launch call of the
\* invocation succeeded; when no attempt succeeds the error is re-raised and
\* the per-launch counter is not reset.
C2_LaunchReturnsOnlyOnSuccess ==
    lastLaunch.called =>
        /\ lastLaunch.raised = "none" => lastLaunch.launched
        /\ ~lastLaunch.launched =>
              /\ lastLaunch.raised \in {"TargetLaunchError", "TargetLaunchTimeout"}
              /\ tests_run = lastLaunch.tests_run_before

\* C3 (as stated): the status of a returned RunResult is set only when
\* attempted is true; an unattempted delivery has status none.
C3_StatusOnlyWhenAttempted ==
    RunReturned => (result.status # NoStatus => result.attempted)

\* C3 (amended): the status of a returned RunResult is the classification
\* target.detect_failure returned (FAILED for RESULT_FAILURE, IGNORED for
\* RESULT_IGNORED, none otherwise), whether or not the delivery was attempted.
C3_StatusFollowsDetect ==
    RunReturned =>
        /\ result.status = FAILED <=> lastRun.detect = RESULT_FAILURE
        /\ result.status = IGNORED <=> lastRun.detect = RESULT_IGNORED
        /\ result.status = NoStatus <=> lastRun.detect = RESULT_NONE

\* C3 (witness): an unattempted delivery returned with status FAILED
C3_Witness ==
    RunReturned /\ ~result.attempted /\ result.status = FAILED

\* The iteration's result dispatch is over (or the iteration ended in an error)
DispatchOver == pc \in {"relaunch", "stop", "top", "done", "error"}

\* C4 (as stated): in every iteration in which Runner.run returned FAILED,
\* whatever attempted, initial and timeout are, report_result is invoked
\* exactly once, and once it has returned the results tally has grown by 1
\* and the ignored count is unchanged.
C4_FailedAlwaysReported ==
    (RunReturned /\ result.status = FAILED /\ DispatchOver) =>
        /\ Count("report_result") = 1
        /\ lastReport.raised = "none" =>
              (results = prev.results + 1 /\ ignored = prev.ignored)

\* C4 (amended): the same, except for a delivery that was not attempted on the
\* first attempt since launch: there SessionError is raised before the result
\* dispatch and report_result is not invoked at all.
C4_FailedReportedUnlessFatal ==
    /\ (RunReturned /\ result.status = FAILED /\ DispatchOver) =>
          IF ~result.attempted /\ result.initial
          THEN /\ Count("report_result") = 0
               /\ pc = "error"
               /\ results = prev.results /\ ignored = prev.ignored
          ELSE /\ Count("report_result") = 1
               /\ lastReport.called
               /\ ignored = prev.ignored
               /\ IF lastReport.raised = "none"
                  THEN results = prev.results + 1 /\ pc # "error"
                  ELSE results = prev.results /\ pc = "error"
    /\ (RunReturned /\ result.status # FAILED) => Count("report_result") = 0
    /\ ~DispatchOver => Count("report_result") = 0

\* C4 (witness): a failure of an unattempted, not-first delivery was reported
C4_Witness ==
    /\ RunReturned /\ result.status = FAILED /\ pc = "relaunch"
    /\ ~result.attempted /\ ~result.initial /\ result.timeout
    /\ results = prev.results + 1

\* C5: when the delivery is not attempted and is the first attempt since
\* launch, Session.run saves the target logs to a fresh directory and ends in
\* SessionError (in the exception of target.save_logs when that call itself
\* raises); neither the result dispatch, nor the relaunch check, nor the stop
\* check, nor a further iteration is executed, and the iteration counter keeps
\* the value of that iteration.
C5_NotServedInitialIsFatal ==
    (RunReturned /\ ~result.attempted /\ result.initial) =>
        /\ pc \in {"update", "error"}
        /\ iteration = lastRun.iter
        /\ Count("check_relaunch") = 0 /\ Count("report_result") = 0
        /\ results = prev.results /\ ignored = prev.ignored
        /\ pc = "update" => (Count("save_logs") = 0 /\ outcome = "running")
        /\ pc = "error" =>
              /\ outcome \in {"SessionError", "target.save_logs"}
              /\ Count("save_logs") = 1
              /\ dirs # lastRun.dirs_before
              /\ lastRun.dirs_before \subseteq dirs

\* C5 (witness): the session ended in SessionError in its second iteration
C5_Witness ==
    /\ RunReturned /\ ~result.attempted /\ result.initial
    /\ pc = "error" /\ outcome = "SessionError" /\ iteration = 2

\* C6 (as stated): with an iteration limit L the iteration counter never
\* exceeds L.
C6_NeverExceedsLimit ==
    iteration_limit # None => iteration <= iteration_limit

\* C6 (amended): with an iteration limit L >= 1 the iteration counter never
\* exceeds L, no iteration is started once the counter has reached L, and the
\* loop that ends on the limit ends normally with the counter at L.
C6_LimitRespected ==
    (iteration_limit # None /\ iteration_limit >= 1) =>
        /\ iteration <= iteration_limit
        /\ iteration = iteration_limit => pc # "top"
        /\ outcome = "Hit iteration limit" =>
              (pc = "done" /\ iteration = iteration_limit)
        /\ (pc = "done" /\ outcome # "Replay Complete") =>
              (outcome = "Hit iteration limit" /\ iteration = iteration_limit)

\* C6 (witness): the loop ended on a limit of 3 iterations
C6_Witness ==
    /\ pc = "done" /\ outcome = "Hit iteration limit"
    /\ iteration_limit = 3 /\ iteration = 3

\* C7: when adapter.remaining first drops below 1 during iteration k,
\* Session.run starts no iteration k+1: unless an error ends it, it exits
\* normally at the end of iteration k, after the delivery, the result
\* dispatch and the relaunch check of that iteration, the counter being k.
C7_ReplayCompleteEndsLoop ==
    dropIter > 0 =>
        /\ iteration = dropIter
        /\ pc # "top"
        /\ remaining = 0
        /\ pc = "done" =>
              /\ outcome = "Replay Complete"
              /\ RunReturned
              /\ Count("serve_path") = 1 /\ Count("detect_failure") = 1
              /\ Count("check_relaunch") = 1
              /\ Count("report_result") = (IF result.status = FAILED THEN 1 ELSE 0)

\* C7 (witness): the replay completed in iteration 3
C7_Witness ==
    pc = "done" /\ dropIter = 3 /\ iteration = 3 /\ outcome = "Replay Complete"

\* The place of a collaborator call in the order of an iteration (0: a call
\* the order does not speak of)
Rank(e) ==
    CASE e = "launch" -> 1
      [] e = "generate" -> 2
      [] e = "serve_path" -> 3
      [] e = "detect_failure" -> 4
      [] e = "check_relaunch" -> 5
      [] OTHER -> 0

\* C8: within every iteration Runner.launch (if any) comes before the
\* generation, the generation before serve_path, serve_path before
\* target.detect_failure and that before target.check_relaunch; none of them
\* happens twice or out of order.
C8_IterationOrder ==
    /\ \A i, j \in 1..Len(events) :
          (i < j /\ Rank(events[i]) > 0 /\ Rank(events[j]) > 0)
              => Rank(events[i]) < Rank(events[j])
    /\ Count("detect_failure") = 1 => Count("serve_path") = 1
    /\ Count("serve_path") = 1 => Count("generate") = 1
    /\ Count("check_relaunch") = 1 => Count("detect_failure") = 1

\* C8 (witness): an iteration that launched, generated, served, classified
\* and checked for a relaunch
C8_Witness ==
    /\ pc = "stop" /\ iteration = 2
    /\ Count("launch") = 1 /\ Count("generate") = 1 /\ Count("serve_path") = 1
    /\ Count("detect_failure") = 1 /\ Count("check_relaunch") = 1

\* C9: with test_path = None the scratch directory Runner.run created does not
\* exist when the call exits, by return or by an exception of testcase.dump or
\* server.serve_path; with test_path set Runner.run creates and removes no
\* directory.
C9_ScratchDirRemoved ==
    lastRun.called =>
        IF lastRun.test_path = None
        THEN /\ lastRun.created = {lastRun.wwwdir}
             /\ lastRun.wwwdir \notin lastRun.dirs_before
             /\ lastRun.wwwdir \notin dirs
             /\ dirs = lastRun.dirs_before
        ELSE /\ lastRun.created = {}
             /\ lastRun.removed = {}
             /\ dirs = lastRun.dirs_before
             /\ lastRun.test_path \in dirs

\* C9 (witness): serve_path raised in a call that had created its directory
C9_Witness ==
    /\ lastRun.called /\ lastRun.test_path = None
    /\ lastRun.raised = "serve_path" /\ lastRun.created # {}

\* C10: the log directory report_result created no longer exists when
\* report_result exits, by return or by an exception of target.save_logs,
\* of the crash report or of reporter.submit.
C10_ReportLogsRemoved ==
    lastReport.called => lastReport.result_logs \notin dirs

---------------------------------------------------------------------------
(* _IdleChecker: throttling (C11, C12) *)

\* C11 (as stated): after schedule_poll(initial=True), any two calls of the
\* idle predicate are at least poll_delay apart, whatever the predicate
\* answered.  Time does not run backwards, so it is enough to compare each
\* call of the predicate with the one before it.
C11_ChecksPollDelayApart ==
    Len(checks) = 2 => checks[2].at - checks[1].at >= poll_delay

\* C11 (amended): after schedule_poll(initial=True), a call of the idle
\* predicate comes at least poll_delay after the call before it when that
\* call answered false; when it answered true, is_idle returned true and
\* left _next_poll where it was.
C11_ChecksApartAfterFalse ==
    /\ (Len(checks) = 2 /\ ~checks[1].answer)
            => checks[2].at - checks[1].at >= poll_delay
    /\ (lastIdle.called /\ lastIdle.invoked = 1 /\ lastIdle.answer)
            => (lastIdle.ret /\ next_poll = lastIdle.before)

\* two calls of the predicate exactly poll_delay > 0 apart, the earlier one
\* having answered false
C11_Witness ==
    /\ Len(checks) = 2
    /\ ~checks[1].answer
    /\ poll_delay >= 1
    /\ checks[2].at - checks[1].at = poll_delay

\* C12: after schedule_poll(initial=True) at t0, an is_idle call before
\* t0 + initial_delay returns false, does not call the predicate and leaves
\* _next_poll alone; an is_idle call at or after _next_poll calls the
\* predicate exactly once, returns true if it answered true, and otherwise
\* returns false and sets _next_poll to the time of the call plus poll_delay.
C12_IsIdlePolls ==
    lastIdle.called =>
        /\ lastIdle.at < t0 + init_delay
                => /\ lastIdle.invoked = 0
                   /\ ~lastIdle.ret
                   /\ next_poll = lastIdle.before
        /\ lastIdle.at >= lastIdle.before
                => /\ lastIdle.invoked = 1
                   /\ lastIdle.ret = lastIdle.answer
                   /\ ~lastIdle.answer => next_poll = lastIdle.at + poll_delay

\* an is_idle call made exactly at _next_poll, where the predicate answered
\* false and the next poll was put off
C12_Witness ==
    /\ lastIdle.called
    /\ lastIdle.at = lastIdle.before
    /\ lastIdle.invoked = 1
    /\ ~lastIdle.answer
    /\ poll_delay >= 1
    /\ next_poll = lastIdle.at + poll_delay

---------------------------------------------------------------------------
(* Runner: the per-launch counter and RunResult.initial (C13, C14) *)

\* C13: after any sequence of Runner.launch and Runner.run calls, the
\* per-launch counter equals the number of attempted deliveries since the
\* most recent successful launch of the target (since the Runner was built,
\* if there was none).
C13_CounterCountsAttempted == tests_run = since.attempted

\* C13, step by step: a Runner.launch that raises leaves the counter
\* unchanged and one that returns sets it to 0
C13_LaunchResetsCounter ==
    lastLaunch.called =>
        tests_run = (IF lastLaunch.raised = "none" THEN 0
                     ELSE lastLaunch.tests_run_before)

\* C14: the RunResult.initial returned by a Runner.run call is true iff that
\* call is the first Runner.run call since the target was last successfully
\* launched through Runner.launch (since.runs counts the call itself).
C14_InitialIffFirstRun ==
    (lastRun.called /\ lastRun.raised = "none")
        => (result.initial <=> since.runs = 1)

---------------------------------------------------------------------------
(* LogOutputLimiter (C15) *)

\* n is 1, 2, 4, 8, ...
IsPow2(n) == \E k \in 0..n : 2^k = n

\* C15: with the default settings (not verbose, multiplier 2), ready called
\* once per iteration with cur_iter = 1, 2, 3, ... while the launch count
\* stays constant and less than delay passes since the time anchor was set
\* returns true exactly at the iterations 1, 2, 4, 8, ...; a call that
\* returns true sets the time anchor to the time of the call and the launch
\* threshold to launches + 1, and a call that returns false changes no field.
C15_ReadyAtPowersOfTwo ==
    (lastReady.called /\ ~limiter.verbose /\ limiter.multiplier = 2) =>
        /\ lastReady.quiet => (lastReady.ret <=> IsPow2(lastReady.cur_iter))
        /\ lastReady.ret => /\ limiter.time = lastReady.at
                            /\ limiter.launches = lastReady.launches + 1
        /\ ~lastReady.ret => limiter = lastReady.before

\* the call for iteration 8 of such a sequence, which returns true after the
\* calls for 5, 6 and 7 returned false
C15_Witness ==
    /\ lastReady.called
    /\ ~limiter.verbose
    /\ limiter.multiplier = 2
    /\ lastReady.quiet
    /\ lastReady.cur_iter = 8
    /\ lastReady.ret
    /\ lastReady.before.iterations = 8
    /\ limiter.iterations = 16

---------------------------------------------------------------------------
(* Runner.location (C16) *)

\* path without the "/" characters it begins with
NoLeadingSlash(path) ==
    LET k == CHOOSE k \in 0..Len(path) :
                /\ \A i \in 1..k : path[i] = "/"
                /\ k < Len(path) => path[k + 1] # "/"
    IN  SubSeq(path, k + 1, Len(path))

\* C16: Runner.location returns "http://127.0.0.1:<port>/<path>" (<path>
\* being srv_path without its leading slashes) and, iff at least one
\* directive applies, "?" and the directives joined by "&" in the order
\* close_after=<n>, forced_close=0, timeout=<timeout*1000>: close_after is
\* present iff it is not None, forced_close=0 iff forced_close is false,
\* timeout iff it is not None.  The string is a function of the arguments.
C16_LocationFormat ==
    lastLoc.called =>
        LET ca == lastLoc.close_after # None
            fc == ~lastLoc.forced_close
            to == lastLoc.timeout # None
            d1 == IF ca THEN << "close_after=" >> \o Decimal(lastLoc.close_after)
                  ELSE << >>
            d2 == IF fc THEN << "forced_close=0" >> ELSE << >>
            d3 == IF to THEN << "timeout=" >> \o Decimal(lastLoc.timeout * 1000)
                  ELSE << >>
            q == IF ca \/ fc \/ to THEN << "?" >> ELSE << >>
            amp12 == IF ca /\ (fc \/ to) THEN << "&" >> ELSE << >>
            amp23 == IF fc /\ to THEN << "&" >> ELSE << >>
        IN  lastLoc.url = << "http://127.0.0.1:" >> \o Decimal(lastLoc.srv_port)
                          \o << "/" >> \o NoLeadingSlash(lastLoc.srv_path)
                          \o q \o d1 \o amp12 \o d2 \o amp23 \o d3

\* location("/x", 8080, close_after=5, forced_close=False, timeout=2)
C16_Witness ==
    /\ lastLoc.called
    /\ lastLoc.srv_path = << "/", "x" >>
    /\ lastLoc.srv_port = 8080
    /\ lastLoc.close_after = 5
    /\ ~lastLoc.forced_close
    /\ lastLoc.timeout = 2
    /\ lastLoc.url = << "http://127.0.0.1:", "8", "0", "8", "0", "/", "x", "?",
                        "close_after=", "5", "&", "forced_close=0", "&",
                        "timeout=", "2", "0", "0", "0" >>

---------------------------------------------------------------------------
(* Session.run: the relaunch of a closed target (C17, C18) *)

\* what the head of the loop calls for a closed target, in order
LaunchCalls == << "purge_tests", "pre_launch", "launch" >>

\* C17: when the delivery is not attempted and is not the first attempt since
\* launch, Runner.run has closed the target, Session.run raises no error of
\* its own (it ends in an error only when report_result raises) and goes on;
\* the iteration that follows, if there is one, purges the queued inputs and
\* calls Runner.launch before it generates the next input.
C17_NotServedRelaunches ==
    /\ (RunReturned /\ ~result.attempted /\ ~result.initial) =>
          /\ closed
          /\ Count("close") = 1
          /\ Count("save_logs") = 0
          /\ outcome # "SessionError"
          /\ pc = "error" => /\ lastReport.called
                             /\ lastReport.raised # "none"
                             /\ outcome = lastReport.raised
    /\ prev.retry =>
          /\ prev.closed
          /\ Len(events) >= 3
          /\ SubSeq(events, 1, 3) = LaunchCalls
          /\ lastLaunch.called
          /\ \A i \in 1..Len(events) : events[i] = "generate" => i > 3

\* C17 (witness): after such a delivery the next iteration has purged,
\* relaunched the target and generated the next input
C17_Witness ==
    /\ prev.retry
    /\ pc = "run"
    /\ events = << "purge_tests", "pre_launch", "launch", "generate" >>
    /\ ~closed

\* C18: in every iteration, the first included, Runner.launch is invoked iff
\* the target is closed when the iteration observes it; when it is invoked,
\* iomanager.purge_tests and then adapter.pre_launch precede it in that
\* iteration, each of the three being called once; when the target is open
\* none of the three is invoked.
C18_LaunchIffClosed ==
    iteration >= 1 =>
        IF prev.closed
        THEN /\ Len(events) >= 3
             /\ SubSeq(events, 1, 3) = LaunchCalls
             /\ Count("purge_tests") = 1
             /\ Count("pre_launch") = 1
             /\ Count("launch") = 1
             /\ lastLaunch.called
        ELSE /\ Count("purge_tests") = 0
             /\ Count("pre_launch") = 0
             /\ Count("launch") = 0
             /\ ~lastLaunch.called

\* C18 (witness): an iteration that found the target open and delivered
\* without launching it
C18_Witness ==
    /\ iteration = 2
    /\ ~prev.closed
    /\ pc = "update"
    /\ events = << "generate", "serve_path", "detect_failure" >>

---------------------------------------------------------------------------
(* Runner.run: failure detection and the coverage dump (C19) *)

\* where the call e is in the log of the current Runner.run call
Pos(e) == CHOOSE i \in 1..Len(events) : events[i] = e

\* C19: in every Runner.run call that gets past the serving,
\* target.detect_failure is invoked exactly once, after server.serve_path
\* has ended; target.dump_coverage is invoked iff the delivery was attempted,
\* coverage was requested and no timeout occurred, and then exactly once,
\* after the serving and strictly before detect_failure.  A call in which
\* testcase.dump or serve_path raises invokes neither.
C19_DetectOnceCoverageBefore ==
    lastRun.called =>
        IF lastRun.raised = "none"
        THEN /\ Count("serve_path") = 1
             /\ Count("detect_failure") = 1
             /\ Pos("serve_path") < Pos("detect_failure")
             /\ Count("dump_coverage") =
                    (IF result.attempted /\ lastRun.coverage /\ ~result.timeout
                     THEN 1 ELSE 0)
             /\ Count("dump_coverage") = 1 =>
                    /\ Pos("serve_path") < Pos("dump_coverage")
                    /\ Pos("dump_coverage") < Pos("detect_failure")
        ELSE /\ Count("detect_failure") = 0
             /\ Count("dump_coverage") = 0

\* C19 (witness): an attempted delivery with coverage requested and no
\* timeout, whose coverage was dumped before the failure detection
C19_Witness ==
    /\ lastRun.called /\ lastRun.raised = "none"
    /\ result.attempted /\ lastRun.coverage /\ ~result.timeout
    /\ events = << "serve_path", "dump_coverage", "detect_failure" >>

---------------------------------------------------------------------------
(* Runner._keep_waiting (C20) *)

\* C20: _keep_waiting returns false without consulting the health of the
\* target when an idle checker is configured and is_idle() returns true;
\* otherwise it returns exactly what target.monitor.is_healthy() returns.
\* is_idle is called only when an idle checker is configured, and within
\* Runner.run never before schedule_poll(initial=True) has run for that
\* same call (so its assertion on _next_poll never fails).
C20_KeepWaitingIdleFirst ==
    lastKeep.called =>
        /\ lastKeep.raised = "none"
        /\ IF idle_set /\ lastKeep.idle
           THEN ~lastKeep.ret /\ lastKeep.health_calls = 0
           ELSE lastKeep.ret = lastKeep.healthy /\ lastKeep.health_calls = 1
        /\ lastKeep.idle_calls = (IF idle_set THEN 1 ELSE 0)
        /\ lastKeep.idle_calls = 1 =>
              /\ lastKeep.scheduled
              /\ lastIdle.called
              /\ lastIdle.before # None
              /\ lastIdle.before >= t0 + init_delay

\* C20 (witness): the idle check ended the waiting for a target that would
\* have been reported healthy
C20_Witness ==
    /\ lastKeep.called
    /\ idle_set
    /\ lastKeep.idle
    /\ lastKeep.healthy
    /\ ~lastKeep.ret
    /\ lastKeep.health_calls = 0
    /\ lastKeep.scheduled

---------------------------------------------------------------------------
(* RunResult.attempted and the discarded input (C21) *)

===========================================================================
